---- MODULE Spec2Model ----
(***************************************************************************)
(* A model of three components of a user-space TCP/IP stack:               *)
(*   - Wrap32 (wrapping_integers.cc): wrap / unwrap of sequence numbers,   *)
(*   - Reassembler (reassembler.cc): out-of-order byte-range reassembly,   *)
(*   - NetworkInterface (network_interface.cc): ARP resolution and frames. *)
(* Each component has its own specification (SpecWrap32, SpecReassembler,  *)
(* SpecNetworkInterface); the variables of the other components stay at    *)
(* their initial values.                                                   *)
(***************************************************************************)
EXTENDS Integers, Sequences, FiniteSets, TLC

VARIABLES
  \* ---- Wrap32 ----
  wn,                 \* absolute index given to wrap
  wzero,              \* zero_point.raw_value_
  wcheckpoint,        \* checkpoint given to unwrap
  wraw,               \* raw_value_ of the wrapped value (result of wrap)
  wresult,            \* result of unwrap
  wpc,                \* "start" -> "wrapped" -> "done"
  \* ---- Reassembler and its Writer ----
  next_stream_index_, \* Reassembler::next_stream_index_
  store_buffer_,      \* Reassembler::store_buffer_: sequence of <<l, r, s>>
  store_data_size_,   \* Reassembler::store_data_size_ (unsigned, wraps)
  had_last_,          \* Reassembler::had_last_
  output,             \* every byte pushed to the Writer so far, in push order
  nread,              \* bytes the reader has popped from the stream
  closed,             \* Writer closed
  fault,              \* "none", "ub" (undefined behaviour hit), "throw"
  rcall,              \* history: the last insert call and the path it took
  seen,               \* history: stream indices passed to insert so far
  eof,                \* history: an accepted, untruncated is_last call was made
  ncalls,             \* history: number of insert calls made
  \* ---- NetworkInterface ----
  ip2ether_,          \* NetworkInterface::ip2ether_: ip -> <<ethernet, age>>
  arp_timer_,         \* NetworkInterface::arp_timer_: ip -> age
  waited_dgrams_,     \* NetworkInterface::waited_dgrams_: ip -> Seq(dgram)
  out_frames_,        \* NetworkInterface::out_frames_
  ncall,              \* history: the last NetworkInterface call and its effect
  nhist               \* history: per-ip clocks and counters

wvars == <<wn, wzero, wcheckpoint, wraw, wresult, wpc>>
rvars == <<next_stream_index_, store_buffer_, store_data_size_, had_last_,
           output, nread, closed, fault, rcall, seen, eof, ncalls>>
nvars == <<ip2ether_, arp_timer_, waited_dgrams_, out_frames_, ncall, nhist>>
vars == <<wvars, rvars, nvars>>

Min(a, b) == IF a < b THEN a ELSE b
Max(a, b) == IF a < b THEN b ELSE a
Abs(a) == IF a < 0 THEN -a ELSE a

(***************************************************************************)
(*                               Wrap32                                    *)
(* The 32-bit wire width and the 64-bit absolute width are scaled down to  *)
(* WireBits and AbsBits; all arithmetic keeps its width (% 2^w).           *)
(***************************************************************************)
WireBits == 3
AbsBits == 6
WireMod == 2 ^ WireBits      \* 1UL << 32
AbsMod == 2 ^ AbsBits        \* 2^64, the range of uint64_t

\* uint32_t( x ): truncation to the wire width
U32(x) == x % WireMod
\* uint64_t arithmetic result
U64(x) == x % AbsMod

\* Wrap32::operator+( uint32_t ): 32-bit wraparound addition
WrapAdd(zero, n) == U32(zero + n)

\* Wrap32::wrap( n, zero_point )
wrap(n, zero_point) == WrapAdd(zero_point, U32(n % WireMod))

\* Wrap32::unwrap( zero_point, checkpoint ) on raw_value_ = raw
unwrap(raw, zero_point, checkpoint) ==
  LET check == U32(zero_point + U32(checkpoint % WireMod))
      \* uint32_t arithmetic: check + 0 - raw_value_, then widened, then % 2^32
      left  == U32(check + U32(WireMod) + WireMod - raw) % WireMod
      right == U32(raw + U32(WireMod) + WireMod - check) % WireMod
  IN IF left < right /\ checkpoint >= left
       THEN U64(checkpoint + AbsMod - left)
       ELSE U64(checkpoint + right)

(***************************************************************************)
(*                             Reassembler                                 *)
(* The stream is StreamLen bytes long; the byte at stream index i is the   *)
(* number i, so that the output shows which index every pushed byte came   *)
(* from.  Pad is the '\0' that std::string::resize appends.                *)
(***************************************************************************)
StreamLen == 4     \* length of the underlying stream
Capacity == 3      \* capacity of the output ByteStream
MaxInserts == 4    \* insert calls explored
SizeBits == 16     \* width of uint64_t, scaled down
SizeMod == 2 ^ SizeBits
Pad == -1
\* values a read of get<1>( *end() ) is modelled to produce: every value up
\* to StreamLen + 1 (larger ones compare like StreamLen + 1 everywhere)
GarbageVals == 0 .. (StreamLen + 1)

\* the bytes of the stream at [first, first + len)
Data(first, len) == [k \in 1 .. len |-> first + k - 1]

\* std::string::substr( pos )
substr(data, pos) == SubSeq(data, pos + 1, Len(data))

\* std::string::resize( n ): truncates, or pads with '\0'
resize(data, n) ==
  IF n <= Len(data) THEN SubSeq(data, 1, n)
  ELSE data \o [k \in 1 .. (n - Len(data)) |-> Pad]

\* Writer::available_capacity()
available_capacity == Capacity - (Len(output) - nread)

\* Writer::push( data ): appends
WriterPush(out, data) == out \o data

\* container.emplace( pos, node ): insert before position pos (Len + 1 = end())
Emplace(buf, pos, node) ==
  SubSeq(buf, 1, pos - 1) \o <<node>> \o SubSeq(buf, pos, Len(buf))

\* container.erase( first, last ): removes positions [first, last)
Erase(buf, first, last) ==
  SubSeq(buf, 1, first - 1) \o SubSeq(buf, last, Len(buf))

\* std::lower_bound( first, first + len, val, get<1>( node ) < val ): the
\* library's binary search, run as is whether or not the range is partitioned
RECURSIVE lower_bound(_, _, _, _)
lower_bound(buf, first, len, val) ==
  IF len <= 0 THEN first
  ELSE LET half == len \div 2
           mid == first + half
       IN IF buf[mid][2] < val
            THEN lower_bound(buf, mid + 1, len - half - 1, val)
            ELSE lower_bound(buf, first, half, val)

\* std::upper_bound( first, first + len, val, get<0>( node ) < val ): the same
\* binary search; the comparator is the one the code passes
RECURSIVE upper_bound(_, _, _, _)
upper_bound(buf, first, len, val) ==
  IF len <= 0 THEN first
  ELSE LET half == len \div 2
           mid == first + half
       IN IF buf[mid][1] < val
            THEN upper_bound(buf, first, half, val)
            ELSE upper_bound(buf, mid + 1, len - half - 1, val)

RECURSIVE SumLen(_, _, _)
SumLen(buf, first, last) ==
  IF first >= last THEN 0
  ELSE Len(buf[first][3]) + SumLen(buf, first + 1, last)

\* Reassembler::store_data, line 97: whether get<1>( *right ) is evaluated with
\* right == end(), which reads past the container
reads_end(buf, begin, end) ==
  LET endpos == Len(buf) + 1
      left == lower_bound(buf, 1, Len(buf), begin)
      right == upper_bound(buf, left, endpos - left, end)
  IN right # left /\ right = endpos

\* Reassembler::store_data( data, begin, end ) on buffer buf and counter size.
\* g is the value read by get<1>( *right ) when right == end().
\* Result: the buffer, the counter, and whether undefined behaviour occurred
\* (dereferencing end(), or std::ranges::copy writing outside temp_s).
store_data(buf, size, data, begin, end, g) ==
  LET endpos == Len(buf) + 1
      left == lower_bound(buf, 1, Len(buf), begin)
      right == upper_bound(buf, left, endpos - left, end)
      data_left == IF left # endpos THEN Min(begin, buf[left][1]) ELSE begin
      data_right == IF right # left
                      THEN Max(end, IF right = endpos THEN g ELSE buf[right][2])
                      ELSE end
      tempLen == data_right - data_left + 1
      outOfTemp ==
        \/ \E k \in left .. (right - 1) :
              \/ buf[k][1] - data_left < 0
              \/ buf[k][1] - data_left + Len(buf[k][3]) > tempLen
        \/ begin - data_left + Len(data) > tempLen
  IN IF Len(data) = tempLen /\ left = right
       THEN [buf |-> Emplace(buf, left, <<data_left, data_right, data>>),
             size |-> size,
             ub |-> FALSE]
       ELSE [buf |-> Emplace(Erase(buf, left, right), left,
                             <<data_left, data_right, data>>),
             size |-> (size + SizeMod - SumLen(buf, left, right)) % SizeMod,
             ub |-> (right # left /\ right = endpos) \/ outOfTemp]

\* Reassembler::push_store_data_to_stream, the while loop: the state
\* [buf, size, next, out] after flushing every front node that starts at next
RECURSIVE DrainLoop(_)
DrainLoop(st) ==
  IF st.buf # <<>> /\ st.buf[1][1] = st.next
    THEN DrainLoop([buf |-> Tail(st.buf),
                    size |-> (st.size + SizeMod - Len(st.buf[1][3])) % SizeMod,
                    next |-> st.next + Len(st.buf[1][3]),
                    out |-> WriterPush(st.out, st.buf[1][3])])
    ELSE st

\* Reassembler::bytes_pending()
bytes_pending == store_data_size_

NoCall == [first_index |-> 0, len |-> 0, is_last |-> FALSE, path |-> "none",
           ltrim |-> FALSE, rtrim |-> FALSE]

\* history of the NetworkInterface: no call made yet
NoNetCall == [op |-> "none"]
\* history: the id of the next datagram, the number of calls, and per ip the milliseconds ticked
\* since the last ARP request frame for it (sinceReq) and since the last ARP
\* message accepted from it (learned), NoClock before the first
NoClock == 0 - 1
InitHist == [nextId |-> 1, ncalls |-> 0,
             sinceReq |-> [x \in {"ipA", "ipB"} |-> NoClock],
             learned |-> [x \in {"ipA", "ipB"} |-> NoClock]]

Init ==
  /\ wn = 0 /\ wzero = 0 /\ wcheckpoint = 0
  /\ wraw = 0 /\ wresult = 0 /\ wpc = "idle"
  /\ next_stream_index_ = 0
  /\ store_buffer_ = <<>>
  /\ store_data_size_ = 0
  /\ had_last_ = FALSE
  /\ output = <<>>
  /\ nread = 0
  /\ closed = FALSE
  /\ fault = "none"
  /\ rcall = NoCall
  /\ seen = {}
  /\ eof = FALSE
  /\ ncalls = 0
  /\ ip2ether_ = <<>>
  /\ arp_timer_ = <<>>
  /\ waited_dgrams_ = <<>>
  /\ out_frames_ = <<>>
  /\ ncall = NoNetCall
  /\ nhist = InitHist

Latch(f, new) == IF f # "none" THEN f ELSE new

\* insert, line 30 with the window test left out: only ranges behind the
\* cursor are rejected
rejected_behind_only(first_index, data_right, enable_end_index) ==
  data_right < next_stream_index_

\* Reassembler::insert, line 30: the range is dropped
rejected(first_index, data_right, enable_end_index) ==
  data_right < next_stream_index_ \/ enable_end_index <= first_index

\* insert, lines 42-47 with the assignment of line 46 left out
is_last_kept(is_last_substring, rtrim) == is_last_substring

\* Reassembler::insert, lines 42-47: is_last_substring after the right trim
is_last_after_trim(is_last_substring, rtrim) == is_last_substring /\ ~rtrim

\* Reassembler::insert( first_index, data, is_last_substring, output ) with
\* data = the stream's bytes [first_index, first_index + len)
insert(first_index, len, is_last_substring) ==
  LET data0 == Data(first_index, len)
      data_left == first_index       \* never updated by the left trim
      data_right0 == first_index + len
      enable_end_index == next_stream_index_ + available_capacity
      ltrim == data_left < next_stream_index_
      data1 == IF ltrim THEN substr(data0, next_stream_index_ - first_index)
               ELSE data0
      rtrim == enable_end_index < data_right0
      data_right == IF rtrim THEN enable_end_index ELSE data_right0
      data2 == IF rtrim THEN resize(data1, enable_end_index - data_left)
               ELSE data1
      is_last2 == is_last_after_trim(is_last_substring, rtrim)
      direct == /\ data_left = next_stream_index_
                /\ \/ store_buffer_ = <<>>
                   \/ data_right < store_buffer_[1][2]
      newLen == Min(data_right, store_buffer_[1][1]) - data_left
      data3 == IF store_buffer_ # <<>> THEN resize(data2, newLen) ELSE data2
      stored(g) == store_data(store_buffer_, store_data_size_, data2,
                              data_left, data_right - 1, g)
      \* the garbage values to consider: only when end() is dereferenced
      garbage == IF ~direct /\ reads_end(store_buffer_, data_left,
                                         data_right - 1)
                   THEN GarbageVals ELSE {0}
      mid(g) == IF direct
                  THEN [buf |-> store_buffer_, size |-> store_data_size_,
                        next |-> next_stream_index_ + Len(data3),
                        out |-> WriterPush(output, data3)]
                  ELSE [buf |-> stored(g).buf, size |-> stored(g).size,
                        next |-> next_stream_index_, out |-> output]
      fin(g) == DrainLoop(mid(g))
      call == [first_index |-> first_index, len |-> len,
               is_last |-> is_last_substring, path |-> "none",
               ltrim |-> FALSE, rtrim |-> FALSE]
      same == UNCHANGED <<next_stream_index_, store_buffer_, store_data_size_,
                          had_last_, output>>
  IN /\ ncalls < MaxInserts
     /\ ncalls' = ncalls + 1
     /\ seen' = seen \cup (first_index .. (first_index + len - 1))
     /\ UNCHANGED nread
     /\ IF len = 0
          THEN \* data.empty()
               /\ closed' = (closed \/ is_last_substring)
               /\ eof' = (eof \/ is_last_substring)
               /\ rcall' = [call EXCEPT !.path = "empty"]
               /\ same /\ UNCHANGED fault
          ELSE IF rejected(first_index, data_right0, enable_end_index)
          THEN /\ rcall' = [call EXCEPT !.path = "rejected"]
               /\ same /\ UNCHANGED <<closed, eof, fault>>
          ELSE IF direct /\ store_buffer_ # <<>> /\ newLen < 0
          THEN \* data.resize( huge ) throws std::length_error
               /\ rcall' = [call EXCEPT !.path = "throw", !.ltrim = ltrim,
                                        !.rtrim = rtrim]
               /\ fault' = Latch(fault, "throw")
               /\ same /\ UNCHANGED <<closed, eof>>
          ELSE /\ rcall' = [call EXCEPT
                              !.path = IF direct THEN "direct" ELSE "store",
                              !.ltrim = ltrim, !.rtrim = rtrim]
               /\ had_last_' = (had_last_ \/ is_last2)
               /\ eof' = (eof \/ is_last2)
               /\ \E g \in garbage :
                    /\ fault' = IF ~direct /\ stored(g).ub
                                  THEN Latch(fault, "ub") ELSE fault
                    /\ store_buffer_' = fin(g).buf
                    /\ store_data_size_' = fin(g).size
                    /\ next_stream_index_' = fin(g).next
                    /\ output' = fin(g).out
                    /\ closed' = (closed \/ (had_last_' /\ fin(g).buf = <<>>))

\* the insert calls a sender of the stream can make: any range of the stream,
\* flagged last only if it ends where the stream ends
Insert ==
  \E first_index \in 0 .. StreamLen :
    \E len \in 0 .. (StreamLen - first_index) :
      \E is_last \in BOOLEAN :
        /\ is_last => first_index + len = StreamLen
        /\ insert(first_index, len, is_last)
        /\ UNCHANGED <<wvars, nvars>>

\* Reader::pop( k ): the application reads k buffered bytes
ReaderPop ==
  \E k \in 1 .. (Len(output) - nread) :
    /\ nread' = nread + k
    /\ UNCHANGED <<next_stream_index_, store_buffer_, store_data_size_,
                   had_last_, output, closed, fault, rcall, seen, eof, ncalls>>
    /\ UNCHANGED <<wvars, nvars>>

NextReassembler == Insert \/ ReaderPop
SpecReassembler == Init /\ [][NextReassembler]_vars

(***************************************************************************)
(*                       Reassembler: the claims                           *)
(* A state with fault # "none" was reached through undefined behaviour or  *)
(* an exception; the claims are stated of the states reached without any.  *)
(***************************************************************************)
AllOf(buf) == SumLen(buf, 1, Len(buf) + 1)

\* C1: delivery order.  After any sequence of insert calls on ranges of one
\* stream, the bytes pushed to the output are exactly the stream's bytes
\* [0, cursor), in index order, none twice and none skipped.
C1_DeliveryOrder ==
  fault = "none" => output = Data(0, next_stream_index_)

\* C2: completeness.  For every k up to the output capacity: once the ranges
\* passed to insert cover every index of [0, k), the cursor is at least k when
\* that insert returns.
C2_Completeness ==
  fault = "none" =>
    \A k \in 1 .. Capacity :
      (0 .. (k - 1)) \subseteq seen => next_stream_index_ >= k

\* C3: bytes_pending() equals the sum of the lengths of the byte ranges held
\* in the pending buffer, in every reachable state.
C3_BytesPending ==
  fault = "none" => bytes_pending = AllOf(store_buffer_)

\* C10: end of stream.  Once an is_last insert was accepted untruncated and
\* every byte of the stream has been pushed, the output is closed and stays
\* closed, and a later insert changes neither the cursor, the pending buffer,
\* the pending-byte counter nor the output.
C10_EndOfStream ==
  [][(fault = "none" /\ fault' = "none" /\ eof
        /\ output = Data(0, StreamLen))
       => /\ closed /\ closed'
          /\ UNCHANGED <<next_stream_index_, store_buffer_,
                         store_data_size_, output>>]_vars

\* Writer::available_capacity() written out, for the claims
Window == Capacity - (Len(output) - nread)

\* C11: close only when complete.  In every reachable state in which the
\* output has been closed, the end-of-stream flag is set and the pending
\* buffer is empty.
C11_CloseOnlyWhenComplete ==
  (fault = "none" /\ closed) => (had_last_ /\ store_buffer_ = <<>>)

\* C13: out-of-window insert is a no-op.  An insert of non-empty data whose
\* first index is at or beyond cursor + available_capacity() changes neither
\* the pending buffer, bytes_pending(), the cursor, the end-of-stream flag
\* (even when is_last is true), the output nor whether it is closed.
C13_OutOfWindowNoOp ==
  [][(fault = "none" /\ ncalls' = ncalls + 1 /\ rcall'.len > 0
        /\ rcall'.first_index >= next_stream_index_ + Window)
       => UNCHANGED <<store_buffer_, store_data_size_, next_stream_index_,
                      had_last_, output, closed, fault>>]_vars

\* C13 witness: an is_last insert at the end of the window was made while a
\* range is pending, and the flag is not set
C13_Witness ==
  /\ fault = "none" /\ rcall.len > 0 /\ rcall.is_last
  /\ rcall.first_index >= next_stream_index_ + Window
  /\ rcall.path = "rejected"
  /\ store_buffer_ # <<>> /\ ~had_last_ /\ ~closed

\* C15: behind-cursor insert is a no-op.  An insert of non-empty data whose
\* range [first_index, first_index + len) ends at or before the cursor leaves
\* the pending buffer, the pending-byte counter, the cursor and the
\* end-of-stream flag unchanged and pushes nothing.
C15_BehindCursorNoOp ==
  [][(fault = "none" /\ fault' = "none" /\ ncalls' = ncalls + 1
        /\ rcall'.len > 0
        /\ rcall'.first_index + rcall'.len <= next_stream_index_)
       => UNCHANGED <<store_buffer_, store_data_size_, next_stream_index_,
                      had_last_, output>>]_vars

\* C16: the pending buffer is disjoint and merged.  After every insert the
\* buffer is sorted by start index and consecutive ranges neither overlap nor
\* touch: previous end + 1 < next start.
C16_DisjointMerged ==
  fault = "none" =>
    \A i \in 1 .. (Len(store_buffer_) - 1) :
      store_buffer_[i][2] + 1 < store_buffer_[i + 1][1]

\* C17: no buffered range at or behind the cursor.  After every insert every
\* range in the pending buffer starts strictly after the cursor.
C17_BufferAheadOfCursor ==
  fault = "none" =>
    \A i \in 1 .. Len(store_buffer_) :
      store_buffer_[i][1] > next_stream_index_

\* C18: capacity truncation cancels is_last.  An is_last insert whose range
\* extends past cursor + available_capacity() does not set the end-of-stream
\* flag, and does not close the output unless the flag was set before.
C18_TruncationCancelsLast ==
  [][(ncalls' = ncalls + 1 /\ rcall'.len > 0 /\ rcall'.is_last
        /\ rcall'.first_index + rcall'.len > next_stream_index_ + Window)
       => /\ had_last_' = had_last_
          /\ ~had_last_ => closed' = closed]_vars

\* C18 witness: an is_last insert was right-trimmed and pushed, and neither
\* set the flag nor closed the output
C18_Witness ==
  /\ fault = "none" /\ rcall.is_last /\ rcall.rtrim /\ rcall.path = "direct"
  /\ output # <<>> /\ ~had_last_ /\ ~closed

(***************************************************************************)
(*                     Wrap32: specification and claim                     *)
(***************************************************************************)
InitWrap32 ==
  /\ wn \in 0 .. (AbsMod - 1)
  /\ wzero \in 0 .. (WireMod - 1)
  /\ wcheckpoint \in 0 .. (AbsMod - 1)
  /\ wraw = 0 /\ wresult = 0 /\ wpc = "start"
  /\ next_stream_index_ = 0
  /\ store_buffer_ = <<>>
  /\ store_data_size_ = 0
  /\ had_last_ = FALSE
  /\ output = <<>>
  /\ nread = 0
  /\ closed = FALSE
  /\ fault = "none"
  /\ rcall = NoCall
  /\ seen = {}
  /\ eof = FALSE
  /\ ncalls = 0
  /\ ip2ether_ = <<>>
  /\ arp_timer_ = <<>>
  /\ waited_dgrams_ = <<>>
  /\ out_frames_ = <<>>
  /\ ncall = NoNetCall
  /\ nhist = InitHist

\* the sender wraps the absolute index wn
DoWrap ==
  /\ wpc = "start"
  /\ wraw' = wrap(wn, wzero)
  /\ wpc' = "wrapped"
  /\ UNCHANGED <<wn, wzero, wcheckpoint, wresult, rvars, nvars>>

\* the receiver unwraps the wire value against its checkpoint
DoUnwrap ==
  /\ wpc = "wrapped"
  /\ wresult' = unwrap(wraw, wzero, wcheckpoint)
  /\ wpc' = "done"
  /\ UNCHANGED <<wn, wzero, wcheckpoint, wraw, rvars, nvars>>

NextWrap32 == DoWrap \/ DoUnwrap
SpecWrap32 == InitWrap32 /\ [][NextWrap32]_vars

\* the absolute indices in [0, 2^64) that wrap to w
Laps(w, z) == {a \in 0 .. (AbsMod - 1) : wrap(a, z) = w}

\* the lap closest to c, the smaller one of two equally distant laps
ClosestLap(w, z, c) ==
  CHOOSE a \in Laps(w, z) :
    \A b \in Laps(w, z) :
      \/ Abs(a - c) < Abs(b - c)
      \/ Abs(a - c) = Abs(b - c) /\ a <= b

\* C9: unwrap(w, z, c) is the absolute index a in [0, 2^64) with
\* wrap(a, z) = w that minimises |a - c|, the smaller one on a tie; in
\* particular unwrap(wrap(n, z), z, n) = n.
C9_UnwrapClosest ==
  wpc = "done" =>
    /\ wresult = ClosestLap(wraw, wzero, wcheckpoint)
    /\ wcheckpoint = wn => wresult = wn

(***************************************************************************)
(*                          NetworkInterface                               *)
(* IP addresses and Ethernet addresses are names; a datagram is its id     *)
(* (send_datagram is given a fresh id on every call).  serialize / parse   *)
(* of datagrams and ARP messages are inverse on well-formed payloads;      *)
(* a malformed payload is the value BadPayload, which parse rejects.       *)
(***************************************************************************)
IP_MAP_TTL == 30000
ARP_REQUEST_TTL == 5000
MaxCalls == 5           \* calls of the interface explored
TickVals == {0, 2500, 27500}   \* ms_since_last_tick values explored

IPs == {"ipA", "ipB"}                \* next hops / ARP senders
Eths == {"ethA", "ethB"}             \* their Ethernet addresses
MyIP == "ipMe"                       \* ip_address_
MyEth == "ethMe"                     \* ethernet_address_
ETHERNET_BROADCAST == "ethBroadcast"
TYPE_IPv4 == "IPv4"
TYPE_ARP == "ARP"
OPCODE_REQUEST == "request"
OPCODE_REPLY == "reply"
NoEth == "eth0"                      \* default-constructed EthernetAddress
BadPayload == [malformed |-> TRUE]
\* parse( x, payload ) succeeds
parse(payload) == "malformed" \notin DOMAIN payload
\* an empty std::optional; a full one is <<value>>
None == <<>>
Some(v) == <<v>>


\* std::map::insert / emplace: no effect when the key is present
MapInsert(m, k, v) == IF k \in DOMAIN m THEN m ELSE m @@ (k :> v)
\* std::map::erase( key )
MapErase(m, k) == [x \in DOMAIN m \ {k} |-> m[x]]
\* m[k] = v
MapPut(m, k, v) == [x \in DOMAIN m \cup {k} |-> IF x = k THEN v ELSE m[x]]

\* EthernetFrame { { dst, ethernet_address_, TYPE_IPv4 }, serialize( dgram ) }
IPv4Frame(dst, dgram) ==
  [dst |-> dst, src |-> MyEth, type |-> TYPE_IPv4, payload |-> [dgram |-> dgram]]

\* ARPMessage, serialized
ARPMessage(opcode, seth, sip, teth, tip) ==
  [opcode |-> opcode, sender_ethernet_address |-> seth, sender_ip_address |-> sip,
   target_ethernet_address |-> teth, target_ip_address |-> tip]

\* the broadcast ARP request of send_datagram
ArpRequestFrame(target_ip) ==
  [dst |-> ETHERNET_BROADCAST, src |-> MyEth, type |-> TYPE_ARP,
   payload |-> ARPMessage(OPCODE_REQUEST, MyEth, MyIP, NoEth, target_ip)]

\* the ARP reply sent to the broadcast address instead of the requester
ArpReplyFrame_broadcast(msg) ==
  [dst |-> ETHERNET_BROADCAST, src |-> MyEth, type |-> TYPE_ARP,
   payload |-> ARPMessage(OPCODE_REPLY, MyEth, MyIP,
                          msg.sender_ethernet_address, msg.sender_ip_address)]

\* the ARP reply of recv_frame
ArpReplyFrame(msg) ==
  [dst |-> msg.sender_ethernet_address, src |-> MyEth, type |-> TYPE_ARP,
   payload |-> ARPMessage(OPCODE_REPLY, MyEth, MyIP,
                          msg.sender_ethernet_address, msg.sender_ip_address)]

\* the members of the interface, as one record
NetState == [ip2ether |-> ip2ether_, arp_timer |-> arp_timer_,
             waited_dgrams |-> waited_dgrams_, out_frames |-> out_frames_]

\* send_datagram with the arp_timer_ test left out: every send to an
\* unresolved address broadcasts a request
send_datagram_no_timer(st, dgram, target_ip) ==
  IF target_ip \in DOMAIN st.ip2ether
    THEN [st EXCEPT !.out_frames =
            Append(@, IPv4Frame(st.ip2ether[target_ip][1], dgram))]
    ELSE [st EXCEPT
            !.out_frames = Append(@, ArpRequestFrame(target_ip)),
            !.arp_timer = MapPut(@, target_ip, 0),
            !.waited_dgrams =
               MapPut(@, target_ip,
                      Append(IF target_ip \in DOMAIN @ THEN @[target_ip]
                             ELSE <<>>, dgram))]

\* NetworkInterface::send_datagram( dgram, next_hop ) on the members st
send_datagram(st, dgram, target_ip) ==
  IF target_ip \in DOMAIN st.ip2ether
    THEN [st EXCEPT !.out_frames =
            Append(@, IPv4Frame(st.ip2ether[target_ip][1], dgram))]
    ELSE IF target_ip \notin DOMAIN st.arp_timer
      THEN [st EXCEPT
              !.out_frames = Append(@, ArpRequestFrame(target_ip)),
              !.arp_timer = MapInsert(@, target_ip, 0),
              !.waited_dgrams = MapInsert(@, target_ip, <<dgram>>)]
      ELSE [st EXCEPT
              !.waited_dgrams =
                 MapPut(@, target_ip,
                        Append(IF target_ip \in DOMAIN @ THEN @[target_ip]
                               ELSE <<>>, dgram))]

\* recv_frame, lines 87-89: send_datagram for every queued datagram, in order
RECURSIVE FlushLoop(_, _, _)
FlushLoop(st, dgrams, ip) ==
  IF dgrams = <<>> THEN st
  ELSE FlushLoop(send_datagram(st, Head(dgrams), ip), Tail(dgrams), ip)

\* the ARP reply branch with the erase of line 90 left out
flush_reply_no_erase(st, msg) ==
  LET ip == msg.sender_ip_address
      st1 == [st EXCEPT !.ip2ether =
                MapInsert(@, ip, <<msg.sender_ethernet_address, 0>>)]
      st2 == [st1 EXCEPT !.waited_dgrams = MapInsert(@, ip, <<>>)]
  IN FlushLoop(st2, st2.waited_dgrams[ip], ip)

\* recv_frame, lines 85-90: the ARP reply branch
flush_reply(st, msg) ==
  LET ip == msg.sender_ip_address
      st1 == [st EXCEPT !.ip2ether =
                MapInsert(@, ip, <<msg.sender_ethernet_address, 0>>)]
      \* waited_dgrams_[ip] creates an empty list when there is none
      st2 == [st1 EXCEPT !.waited_dgrams = MapInsert(@, ip, <<>>)]
      st3 == FlushLoop(st2, st2.waited_dgrams[ip], ip)
  IN [st3 EXCEPT !.waited_dgrams = MapErase(@, ip)]

\* recv_frame, line 71: learning the sender's mapping
learn(cache, msg) ==
  MapInsert(cache, msg.sender_ip_address, <<msg.sender_ethernet_address, 0>>)

\* the destination test applied to IPv4 frames only: ARP frames are
\* processed whatever their destination
for_someone_else_ipv4_only(frame) ==
  frame.dst # MyEth /\ frame.dst # ETHERNET_BROADCAST /\ frame.type # TYPE_ARP

\* recv_frame, line 59: the frame is neither for this interface nor broadcast
for_someone_else(frame) ==
  frame.dst # MyEth /\ frame.dst # ETHERNET_BROADCAST

\* NetworkInterface::recv_frame( frame ) on the members st: the members after
\* the call and the datagram returned (None for an empty optional)
recv_frame(st, frame) ==
  IF for_someone_else(frame)
    THEN [st |-> st, ret |-> None]
  ELSE IF frame.type = TYPE_IPv4
    THEN IF parse(frame.payload)
           THEN [st |-> st, ret |-> Some(frame.payload.dgram)]
           ELSE [st |-> st, ret |-> None]
  ELSE IF frame.type = TYPE_ARP /\ parse(frame.payload)
    THEN LET msg == frame.payload
             st1 == [st EXCEPT !.ip2ether = learn(@, msg)]
         IN IF msg.opcode = OPCODE_REQUEST
              THEN IF msg.target_ip_address = MyIP
                     THEN [st |-> [st1 EXCEPT !.out_frames =
                                      Append(@, ArpReplyFrame(msg))],
                           ret |-> None]
                     ELSE [st |-> st1, ret |-> None]
              ELSE IF msg.opcode = OPCODE_REPLY
                     THEN [st |-> flush_reply(st1, msg), ret |-> None]
                     ELSE [st |-> st1, ret |-> None]
    ELSE [st |-> st, ret |-> None]

\* the first loop erasing only above IP_MAP_TTL
tick_cache_late(cache, ms) ==
  [x \in {y \in DOMAIN cache : cache[y][2] + ms <= IP_MAP_TTL} |->
     <<cache[x][1], cache[x][2] + ms>>]

\* NetworkInterface::tick, first loop: age the cache, erase at IP_MAP_TTL
tick_cache(cache, ms) ==
  [x \in {y \in DOMAIN cache : cache[y][2] + ms < IP_MAP_TTL} |->
     <<cache[x][1], cache[x][2] + ms>>]

\* the second loop with the timers left as they are
tick_timer_no_age(timer, ms) == timer

\* NetworkInterface::tick, second loop: age the timers, erase at ARP_REQUEST_TTL
tick_timer(timer, ms) ==
  [x \in {y \in DOMAIN timer : timer[y] + ms < ARP_REQUEST_TTL} |->
     timer[x] + ms]

\* ms added to a history clock, which stops counting at its TTL
Clock(c, ms, ttl) == IF c = NoClock THEN NoClock ELSE Min(c + ms, ttl)

\* the caller sends the datagram with the next fresh id to next hop ip
SendDatagram ==
  \E ip \in IPs :
    LET dgram == nhist.nextId
        st == send_datagram(NetState, dgram, ip)
        arp == /\ Len(st.out_frames) > Len(out_frames_)
               /\ st.out_frames[Len(st.out_frames)].type = TYPE_ARP
    IN /\ nhist.ncalls < MaxCalls
       /\ ip2ether_' = st.ip2ether
       /\ arp_timer_' = st.arp_timer
       /\ waited_dgrams_' = st.waited_dgrams
       /\ out_frames_' = st.out_frames
       /\ ncall' = [op |-> "send_datagram", ip |-> ip, dgram |-> dgram]
       /\ nhist' = [nhist EXCEPT !.nextId = @ + 1, !.ncalls = @ + 1,
                                 !.sinceReq[ip] = IF arp THEN 0 ELSE @]
       /\ UNCHANGED <<wvars, rvars>>

\* the frames the link can deliver
InFrames ==
  LET dsts == {MyEth, ETHERNET_BROADCAST, "ethA"}
      arps == {ARPMessage(o, e, i, MyEth, tip) :
                 o \in {OPCODE_REQUEST, OPCODE_REPLY}, e \in Eths, i \in IPs,
                 tip \in {MyIP, "ipA"}}
  IN [dst : dsts, src : {"ethA"}, type : {TYPE_ARP}, payload : arps]
     \cup [dst : dsts, src : {"ethA"}, type : {TYPE_IPv4},
           payload : {[dgram |-> 0]}]
     \cup [dst : dsts, src : {"ethA"}, type : {TYPE_IPv4, TYPE_ARP, "IPv6"},
           payload : {BadPayload}]

\* what the frame carries, for the history
PayloadKind(frame) ==
  IF frame.type = TYPE_IPv4 /\ parse(frame.payload) THEN "ipv4"
  ELSE IF frame.type = TYPE_ARP /\ parse(frame.payload)
    THEN frame.payload.opcode
    ELSE "dropped"

\* what recv_frame does with the frame, for the history
FrameKind(frame) ==
  IF frame.dst # MyEth /\ frame.dst # ETHERNET_BROADCAST THEN "ignored"
  ELSE PayloadKind(frame)

\* the link delivers a frame
RecvFrame ==
  \E frame \in InFrames :
    LET r == recv_frame(NetState, frame)
        kind == FrameKind(frame)
        isArp == kind \in {OPCODE_REQUEST, OPCODE_REPLY}
        sip == frame.payload.sender_ip_address
    IN /\ nhist.ncalls < MaxCalls
       /\ ip2ether_' = r.st.ip2ether
       /\ arp_timer_' = r.st.arp_timer
       /\ waited_dgrams_' = r.st.waited_dgrams
       /\ out_frames_' = r.st.out_frames
       /\ ncall' = IF isArp
                     THEN [op |-> "recv_frame", kind |-> kind, ip |-> sip,
                           eth |-> frame.payload.sender_ethernet_address,
                           tip |-> IF kind = OPCODE_REQUEST
                                     THEN frame.payload.target_ip_address
                                     ELSE MyIP,
                           ret |-> r.ret]
                     ELSE [op |-> "recv_frame", kind |-> kind,
                           what |-> PayloadKind(frame), ret |-> r.ret]
       /\ nhist' = IF isArp
                     THEN [nhist EXCEPT !.ncalls = @ + 1, !.learned[sip] = 0]
                     ELSE [nhist EXCEPT !.ncalls = @ + 1]
       /\ UNCHANGED <<wvars, rvars>>

\* NetworkInterface::tick( ms_since_last_tick )
Tick ==
  \E ms \in TickVals :
    /\ nhist.ncalls < MaxCalls
    /\ ip2ether_' = tick_cache(ip2ether_, ms)
    /\ arp_timer_' = tick_timer(arp_timer_, ms)
    /\ UNCHANGED <<waited_dgrams_, out_frames_>>
    /\ ncall' = [op |-> "tick", ms |-> ms]
    /\ nhist' = [nhist EXCEPT
                   !.ncalls = @ + 1,
                   !.sinceReq = [x \in IPs |-> Clock(@[x], ms, ARP_REQUEST_TTL)],
                   !.learned = [x \in IPs |-> Clock(@[x], ms, IP_MAP_TTL)]]
    /\ UNCHANGED <<wvars, rvars>>

\* NetworkInterface::maybe_send()
MaybeSend ==
  /\ nhist.ncalls < MaxCalls
  /\ nhist' = [nhist EXCEPT !.ncalls = @ + 1]
  /\ IF out_frames_ = <<>>
       THEN UNCHANGED out_frames_
       ELSE out_frames_' = Tail(out_frames_)
  /\ ncall' = [op |-> "maybe_send"]
  /\ UNCHANGED <<ip2ether_, arp_timer_, waited_dgrams_, wvars, rvars>>

NextNetworkInterface == SendDatagram \/ RecvFrame \/ Tick \/ MaybeSend
SpecNetworkInterface == Init /\ [][NextNetworkInterface]_vars

(***************************************************************************)
(*                    NetworkInterface: the claims                         *)
(***************************************************************************)
\* the frames a send_datagram or recv_frame step appended to out_frames_
NewFrames == SubSeq(out_frames_', Len(out_frames_) + 1, Len(out_frames_'))

IsIPv4Of(frame, dgram) ==
  frame.type = TYPE_IPv4 /\ frame.payload.dgram = dgram

\* the ARP request frames for ip in the sequence frames
ArpRequestsFor(frames, ip) ==
  {i \in 1 .. Len(frames) : frames[i] = ArpRequestFrame(ip)}

\* the pending-datagram list of ip, empty when there is none
Pending(waited, ip) == IF ip \in DOMAIN waited THEN waited[ip] ELSE <<>>

\* C4: send_datagram never drops a datagram.  Right after send_datagram(d, X)
\* returns, d is in the outbound queue as an IPv4 frame or is an element of
\* the pending-datagram list of X.
C4_NeverDropped ==
  ncall.op = "send_datagram" =>
    \/ \E i \in 1 .. Len(out_frames_) : IsIPv4Of(out_frames_[i], ncall.dgram)
    \/ \E j \in 1 .. Len(Pending(waited_dgrams_, ncall.ip)) :
          waited_dgrams_[ncall.ip][j] = ncall.dgram

\* C5: ARP request suppression.  Whenever send_datagram enqueues an ARP
\* request for X, either none was enqueued before or the ticks since the
\* previous one add up to at least 5000 ms; and after every send_datagram to
\* an unresolved X a request for X lies less than 5000 ms back, so the sends
\* of one window share exactly one request.
C5_ArpSuppression ==
  [][ncall'.op = "send_datagram" =>
       LET X == ncall'.ip
       IN /\ Len(NewFrames) <= 1
          /\ ArpRequestsFor(NewFrames, X) # {} =>
               \/ nhist.sinceReq[X] = NoClock
               \/ nhist.sinceReq[X] >= ARP_REQUEST_TTL
          /\ \A Y \in IPs \ {X} : ArpRequestsFor(NewFrames, Y) = {}
          /\ X \notin DOMAIN ip2ether_ =>
               /\ nhist'.sinceReq[X] # NoClock
               /\ nhist'.sinceReq[X] < ARP_REQUEST_TTL
               /\ ArpRequestsFor(NewFrames, X) = {} =>
                    nhist'.sinceReq[X] = nhist.sinceReq[X]]_vars

\* C5 witness: two datagrams sent to the unresolved ipA 2500 ms apart are both
\* queued behind the one ARP request
C5_Witness ==
  /\ ncall.op = "send_datagram" /\ ncall.ip = "ipA"
  /\ Len(Pending(waited_dgrams_, "ipA")) = 2
  /\ Cardinality(ArpRequestsFor(out_frames_, "ipA")) = 1
  /\ nhist.sinceReq["ipA"] = 2500

\* C6: flush on ARP reply.  When recv_frame processes an ARP reply from X
\* while the pending list of X is d1..dk, exactly k IPv4 frames carrying
\* d1..dk are appended to the outbound queue in that order, no ARP request is
\* enqueued, nothing is queued again, and no pending list of X is left.
C6_FlushOnReply ==
  [][(ncall'.op = "recv_frame" /\ ncall'.kind = OPCODE_REPLY) =>
       LET X == ncall'.ip
           pend == Pending(waited_dgrams_, X)
       IN /\ Len(out_frames_') = Len(out_frames_) + Len(pend)
          /\ SubSeq(out_frames_', 1, Len(out_frames_)) = out_frames_
          /\ \A i \in 1 .. Len(pend) : IsIPv4Of(NewFrames[i], pend[i])
          /\ X \notin DOMAIN waited_dgrams_'
          /\ \A Y \in DOMAIN waited_dgrams_ \ {X} :
                /\ Y \in DOMAIN waited_dgrams_'
                /\ waited_dgrams_'[Y] = waited_dgrams_[Y]
          /\ arp_timer_' = arp_timer_]_vars

\* C6 witness: a reply from ipA has flushed the datagrams 1 and 2, in order
C6_Witness ==
  /\ ncall.op = "recv_frame" /\ ncall.kind = OPCODE_REPLY /\ ncall.ip = "ipA"
  /\ Len(out_frames_) = 3
  /\ out_frames_[1] = ArpRequestFrame("ipA")
  /\ IsIPv4Of(out_frames_[2], 1) /\ IsIPv4Of(out_frames_[3], 2)
  /\ "ipA" \notin DOMAIN waited_dgrams_

\* C7: ARP learning refreshes.  After recv_frame accepts a well-formed ARP
\* message (request or reply) with sender IP S and sender Ethernet address E,
\* the cache maps S to E with age 0.
C7_LearnRefreshes ==
  (ncall.op = "recv_frame" /\ ncall.kind \in {OPCODE_REQUEST, OPCODE_REPLY}) =>
    /\ ncall.ip \in DOMAIN ip2ether_
    /\ ip2ether_[ncall.ip] = <<ncall.eth, 0>>

\* C8: resolution-cache lifetime.  A mapping learned (an ARP message from X
\* accepted) when the cumulative tick time is T is present in every state
\* where the time is below T + 30000 ms, so that send_datagram to X enqueues
\* an IPv4 frame and no ARP request, and is absent once a tick has brought the
\* time to T + 30000 ms or more.
C8_CacheLifetime ==
  /\ \A X \in IPs :
       nhist.learned[X] # NoClock =>
         (X \in DOMAIN ip2ether_ <=> nhist.learned[X] < IP_MAP_TTL)
  /\ (ncall.op = "send_datagram" /\ nhist.learned[ncall.ip] # NoClock
        /\ nhist.learned[ncall.ip] < IP_MAP_TTL) =>
       /\ out_frames_ # <<>>
       /\ IsIPv4Of(out_frames_[Len(out_frames_)], ncall.dgram)

\* C12: frames for someone else are ignored.  recv_frame on a frame whose
\* destination is neither this interface's Ethernet address nor the broadcast
\* address returns no datagram and leaves the cache, the timers, the pending
\* lists and the outbound queue unchanged, whatever its type and payload.
C12_ForeignFramesIgnored ==
  [][(ncall'.op = "recv_frame" /\ ncall'.kind = "ignored") =>
       /\ ncall'.ret = None
       /\ UNCHANGED <<ip2ether_, arp_timer_, waited_dgrams_, out_frames_>>]_vars

\* C12 witness: a well-formed ARP reply addressed to another station was
\* received while a datagram for ipA waits for its resolution
C12_Witness ==
  /\ ncall.op = "recv_frame" /\ ncall.kind = "ignored"
  /\ ncall.what = OPCODE_REPLY
  /\ Len(Pending(waited_dgrams_, "ipA")) = 1
  /\ "ipA" \in DOMAIN arp_timer_ /\ "ipA" \notin DOMAIN ip2ether_
  /\ out_frames_ = <<ArpRequestFrame("ipA")>>

\* C14: ARP request answering.  When recv_frame accepts a well-formed ARP
\* request for this interface's IP, exactly one ARP reply is appended to the
\* outbound queue, unicast to the requester's Ethernet address, with this
\* interface's IP and Ethernet address as sender; a request for another
\* target IP appends no frame.
C14_ArpRequestAnswered ==
  [][(ncall'.op = "recv_frame" /\ ncall'.kind = OPCODE_REQUEST) =>
       IF ncall'.tip = MyIP
         THEN /\ Len(out_frames_') = Len(out_frames_) + 1
              /\ SubSeq(out_frames_', 1, Len(out_frames_)) = out_frames_
              /\ NewFrames[1].dst = ncall'.eth
              /\ NewFrames[1].type = TYPE_ARP
              /\ NewFrames[1].payload.opcode = OPCODE_REPLY
              /\ NewFrames[1].payload.sender_ip_address = MyIP
              /\ NewFrames[1].payload.sender_ethernet_address = MyEth
         ELSE out_frames_' = out_frames_]_vars

\* C14 witness: a request from the station ethB for this interface's IP was
\* answered with a reply to ethB
C14_Witness ==
  /\ ncall.op = "recv_frame" /\ ncall.kind = OPCODE_REQUEST
  /\ ncall.tip = MyIP /\ ncall.eth = "ethB"
  /\ Len(out_frames_) = 1
  /\ out_frames_[1].dst = "ethB"
  /\ out_frames_[1].payload.opcode = OPCODE_REPLY

\* C19: tick only ages and evicts.  tick(ms) adds ms to the age of every
\* cache entry and every timer, removes exactly the cache entries whose age
\* is then >= 30000 and the timers whose age is then >= 5000, and leaves the
\* outbound queue and the pending lists unchanged; tick(0) changes nothing.
C19_TickAgesAndEvicts ==
  [][ncall'.op = "tick" =>
       LET ms == ncall'.ms
       IN /\ DOMAIN ip2ether_' =
               {x \in DOMAIN ip2ether_ : ip2ether_[x][2] + ms < IP_MAP_TTL}
          /\ \A x \in DOMAIN ip2ether_' :
                ip2ether_'[x] = <<ip2ether_[x][1], ip2ether_[x][2] + ms>>
          /\ DOMAIN arp_timer_' =
               {x \in DOMAIN arp_timer_ : arp_timer_[x] + ms < ARP_REQUEST_TTL}
          /\ \A x \in DOMAIN arp_timer_' :
                arp_timer_'[x] = arp_timer_[x] + ms
          /\ UNCHANGED <<out_frames_, waited_dgrams_>>
          /\ ms = 0 => UNCHANGED <<ip2ether_, arp_timer_, waited_dgrams_,
                                   out_frames_>>]_vars

\* C19 witness: a tick of 2500 ms has brought the timer of ipA to 5000 ms and
\* removed it, and aged the cache entry of ipB to 2500 ms; the datagram for
\* ipA still waits
C19_Witness ==
  /\ ncall.op = "tick" /\ ncall.ms = 2500
  /\ nhist.sinceReq["ipA"] = ARP_REQUEST_TTL
  /\ "ipA" \notin DOMAIN arp_timer_
  /\ Len(Pending(waited_dgrams_, "ipA")) = 1
  /\ "ipB" \in DOMAIN ip2ether_ /\ ip2ether_["ipB"][2] = 2500

\* C20: the TTL-mismatch gap is unreachable.  In every reachable state an IP
\* with both a cache entry and a timer has cache age <= timer age, and no IP
\* has a timer without a cache entry and without a pending list; no step
\* removes an IP's cache entry while leaving its timer in place.
C20_NoTtlGap ==
  /\ [](\A X \in IPs :
          /\ (X \in DOMAIN ip2ether_ /\ X \in DOMAIN arp_timer_) =>
                ip2ether_[X][2] <= arp_timer_[X]
          /\ ~(/\ X \in DOMAIN arp_timer_
               /\ X \notin DOMAIN ip2ether_
               /\ X \notin DOMAIN waited_dgrams_))
  /\ [][\A X \in IPs :
          ~(/\ X \in DOMAIN ip2ether_
            /\ X \notin DOMAIN ip2ether_'
            /\ X \in DOMAIN arp_timer_')]_vars

\* C20 witness: ipA was resolved 2500 ms after the request for it, so that it
\* has a cache entry of age 0 and a timer of age 2500
C20_Witness ==
  /\ "ipA" \in DOMAIN ip2ether_ /\ "ipA" \in DOMAIN arp_timer_
  /\ ip2ether_["ipA"][2] = 0 /\ arp_timer_["ipA"] = 2500
  /\ "ipA" \notin DOMAIN waited_dgrams_

====
